---- MODULE Spec2Model ----
(***************************************************************************)
(* Model of the analysis-session logic of the Checkstyle Analyzer client:  *)
(*   - App.tsx: handleAnalysisStart, handleCodeAnalysis,                   *)
(*     loadHistoryResults, getStatusMessage and the React state they own   *)
(*   - services/api.ts: pollStatus / checkStatus / fetchResults            *)
(*   - services/socket.ts: connectWebSocket / disconnectWebSocket and the  *)
(*     module-level singleton stompClient                                  *)
(* The event loop is single threaded: one action is one run-to-completion  *)
(* slice of a handler between two suspension points (await / callback).    *)
(* Strings are kept as sequences of ASCII tokens (the Ukrainian texts are  *)
(* transliterated); String.startsWith is the prefix test on the tokens.    *)
(***************************************************************************)
EXTENDS Integers, Sequences, FiniteSets, TLC

\* ------------------------------------------------------------------ bounds
MaxSessions == 2      \* submissions that pass the in-progress guard
\* status checks, transport frames, history loads, ignored submissions and
\* direct disconnect calls drawn in one run
MaxEvents   == 3

\* ------------------------------------------------------------- state
VARIABLES
    logs,              \* App: useState<LogEntry[]>  (entries carry a ghost tag)
    results,           \* App: useState<AnalysisResult[]> (count and origin)
    isAnalyzing,       \* App: useState(false)
    currentRequestId,  \* App: useState<string | null>(null)
    analysisStatus,    \* App: useState<AnalysisStatus['status'] | null>(null)
    pc,                \* suspension point of the running session handler
    sid,               \* number of submissions that passed the guard so far
    sess,              \* ghost: the current session's kind and the backend calls it made
    used,              \* ghost: status checks and transport frames drawn so far,
                       \* direct disconnectWebSocket calls,
                       \* submissions ignored while an analysis was running
    pollTrace,         \* ghost: status responses seen by the current pollStatus
    touched,           \* ghost: log changed by someone else since the last poll callback
    stompClient,       \* socket.ts: let stompClient: Client | null
    clients,           \* every Client created by connectWebSocket
    hist,              \* loadHistoryResults calls: made / in flight
    storedToken,       \* auth.ts: localStorage item TOKEN_KEY
    storedUser,        \* auth.ts: localStorage item USER_KEY (serialised user)
    user,              \* AuthProvider: useState<User | null>(null)
    isLoading,         \* AuthProvider: useState(true)
    authCall,          \* the login / register call in flight and its suspension point
    authResult         \* ghost: how the last login / register call ended for its caller

authVars == <<storedToken, storedUser, user, isLoading, authCall, authResult>>

vars == <<logs, results, isAnalyzing, currentRequestId, analysisStatus, pc, sid,
          sess, used, pollTrace, touched, stompClient, clients, hist,
          storedToken, storedUser, user, isLoading, authCall, authResult>>

appVars  == <<results, isAnalyzing, currentRequestId, analysisStatus>>
sockVars == <<stompClient, clients>>

Null == "null"             \* null / not yet set, for string-valued state
Undefined == "undefined"
NoRequestId == 0           \* currentRequestId === null
NoClientRef == 0           \* stompClient === null

SessionIds == 1..MaxSessions

\* ------------------------------------------------------------- strings
\* String.prototype.startsWith on token sequences
StartsWith(s, p) == Len(s) >= Len(p) /\ SubSeq(s, 1, Len(p)) = p

\* `${n}` for the small numbers the model uses
NumStr(n) ==
    CASE n = 0 -> "0" [] n = 1 -> "1" [] n = 2 -> "2" [] n = 3 -> "3"
      [] n = 4 -> "4" [] n = 5 -> "5" [] OTHER -> "n"

\* socket.ts line 70: the completion marker
CompletionMarker == <<"Analiz zaversheno">>

Statuses == {"PENDING", "CLONING", "ANALYZING", "COMPLETED", "FAILED"}

\* mutant: CLONING shares the text of PENDING
getStatusMessageMerged(status) ==
    CASE status = "PENDING"   -> <<"(hourglass) ", "Ochikuvannya pochatku analizu...">>
      [] status = "CLONING"   -> <<"(hourglass) ", "Ochikuvannya pochatku analizu...">>
      [] status = "ANALYZING" -> <<"(magnifier) ", "Analiz Java failiv...">>
      [] status = "COMPLETED" -> <<"(check) ", "Analiz zaversheno">>
      [] status = "FAILED"    -> <<"(cross) ", "Pomylka analizu">>
      [] OTHER                -> <<status>>

\* App.tsx getStatusMessage
getStatusMessage(status) ==
    CASE status = "PENDING"   -> <<"(hourglass) ", "Ochikuvannya pochatku analizu...">>
      [] status = "CLONING"   -> <<"(inbox) ", "Klonuvannya repozytoriyu...">>
      [] status = "ANALYZING" -> <<"(magnifier) ", "Analiz Java failiv...">>
      [] status = "COMPLETED" -> <<"(check) ", "Analiz zaversheno">>
      [] status = "FAILED"    -> <<"(cross) ", "Pomylka analizu">>
      [] OTHER                -> <<status>>

\* A log entry; src and of are ghost tags (who appended it, for which session)
Entry(level, message, src, of) ==
    [level |-> level, message |-> message, src |-> src, of |-> of]

MsgSubmitting      == <<"Nadsylayu zapyt na analiz...">>
MsgCreated(id)     == <<"Zapyt stvoreno. ID: ", NumStr(id), ". Pidklyuchayus do lohiv...">>
MsgChecking        == <<"Pereviryayu status analizu...">>
MsgLoading         == <<"Zavantazhuyu rezultaty...">>
MsgFound(n)        == <<"Znaydeno ", NumStr(n), " porushen">>
MsgError(m)        == <<"Pomylka: ">> \o m
MsgUnknownError    == <<"Nevidoma pomylka">>
MsgWsClosed        == <<"Zyednannya WebSocket zakryto.">>
MsgWsConnected     == <<"WebSocket zyednano. Ochikuyu lohy...">>
MsgStompError      == <<"Pomylka STOMP. Onovit storinku.">>
MsgHistory(n)      == <<"Zavantazheno ", NumStr(n), " rezultativ z istoriyi">>
MsgStatusFailed    == <<"Ne vdalosya otrymaty status analizu.">>
\* mutant: the result-fetch failure reads like an analysis failure
MsgResultsFailedSame == <<"Analiz zavershyvsya z pomylkoyu">>
MsgResultsFailed   == <<"Ne vdalosya zavantazhyty rezultaty.">>
MsgAnalysisFailed  == <<"Analiz zavershyvsya z pomylkoyu">>


\* ------------------------------------------------------------- inputs
\* error.message of a rejected fetch() inside startAnalysis (api.ts 34-43),
\* and one rejection value that is not an Error instance
SubmitErrors ==
    { [isError |-> TRUE,  message |-> <<"Network error">>],
      [isError |-> TRUE,  message |-> <<"Pomylka serveru: 500">>],
      [isError |-> FALSE, message |-> <<>>] }

\* errorMessage field of a status response: string | null (empty is falsy too)
NullMessage == [isNull |-> TRUE, text |-> <<>>]
Text(t) == [isNull |-> FALSE, text |-> t]
BackendErrorMessages == {NullMessage, Text(<<>>), Text(<<"Repository not found">>)}

\* number of violations in a results response
ViolationCounts == {0, 3}

\* frames the backend publishes on /topic/logs/{requestId}
ChannelMessages ==
    { [level |-> "INFO",  message |-> <<"Obrobka failu Main.java...">>],
      [level |-> "INFO",  message |-> <<"Analiz zaversheno", ". Znaydeno 5 porushen">>],
      [level |-> "ERROR", message |-> <<"Ne vdalosya klonuvaty repozytoriy">>] }

\* ------------------------------------------------------------- helpers
\* request: the body handed to analyzeCode by the current code submission;
\* boxChecked: the third argument the form passed to the code callback
NoCodeRequest == [fileName |-> Undefined, checkCompilation |-> FALSE]

NoSession == [kind |-> "none", submit |-> "none", polls |-> 0, fetches |-> 0,
              terminal |-> "none", updates |-> <<>>, failed |-> "none",
              failedWith |-> NullMessage,
              request |-> NoCodeRequest, boxChecked |-> FALSE]

NoClient == [st |-> "none", sub |-> 0, completes |-> 0, deacts |-> 0, errs |-> 0]

NoResults == [n |-> 0, src |-> "none", of |-> 0]

\* setLogs(prev => [...prev, entry])
AppendLog(l, e) == Append(l, e)

\* mutant: the duplicate check is missing
StatusUpdateLogsAlways(prev, statusMsg, s) ==
    Append(prev, Entry("INFO", statusMsg, "poll", s))

\* mutant: the status line is suppressed when it occurs anywhere in the log
StatusUpdateLogsWholeHistory(prev, statusMsg, s) ==
    IF \E i \in DOMAIN prev : prev[i].message = statusMsg
    THEN prev
    ELSE Append(prev, Entry("INFO", statusMsg, "poll", s))

\* App.tsx 151-158: the functional update of the onStatusUpdate callback
StatusUpdateLogs(prev, statusMsg, s) ==
    IF Len(prev) > 0 /\ prev[Len(prev)].message = statusMsg
    THEN prev
    ELSE Append(prev, Entry("INFO", statusMsg, "poll", s))

\* App.tsx 173 / 262: (error instanceof Error) ? error.message : '...'
ErrorMessageOf(err) == IF err.isError THEN err.message ELSE MsgUnknownError

\* new Error(message)
Error(message) == [isError |-> TRUE, message |-> message]

\* mutant: the failure is logged at INFO level
CatchLogsInfo(l, err, s) ==
    AppendLog(l, Entry("INFO", MsgError(ErrorMessageOf(err)), "handler", s))

\* App.tsx 172-178: catch + finally of handleAnalysisStart, applied to the log l
CatchLogs(l, err, s) ==
    AppendLog(l, Entry("ERROR", MsgError(ErrorMessageOf(err)), "handler", s))

\* ------------------------------------------------- authentication values
\* localStorage.getItem(...) === null
NoToken == "null"
NoItem  == <<>>

\* AuthProvider user === null
NoUser == [username |-> "null", email |-> "null", role |-> "null",
           experienceLevel |-> "null"]

\* successful bodies of /api/auth/login and /api/auth/register
AuthResponses ==
    { [token |-> "jwt-alice", username |-> "alice", email |-> "alice@example.com",
       role |-> "USER", experienceLevel |-> "STUDENT"],
      [token |-> "jwt-alice-2", username |-> "alice", email |-> "alice@example.com",
       role |-> "USER", experienceLevel |-> "JUNIOR"],
      [token |-> "jwt-bob", username |-> "bob", email |-> "bob@example.com",
       role |-> "ADMIN", experienceLevel |-> "ADVANCED"] }

\* auth.ts 129-134 and AuthContext.tsx 51-56 / 62-67: the user fields of a response
UserOf(response) ==
    [username |-> response.username, email |-> response.email,
     role |-> response.role, experienceLevel |-> response.experienceLevel]

\* JSON.stringify of a user: its field values in declaration order
Stringify(u) == <<u.username, u.email, u.role, u.experienceLevel>>

\* JSON.parse of a stored user
Parse(item) ==
    [username |-> item[1], email |-> item[2], role |-> item[3],
     experienceLevel |-> item[4]]

\* auth.ts 112-114
getToken(tok) == tok

\* auth.ts 119-122
getUser(item) == IF item # NoItem THEN Parse(item) ELSE NoUser

\* auth.ts 160-162: !!getToken()
isAuthenticated(tok) == getToken(tok) # NoToken /\ getToken(tok) # ""

\* auth.ts 127-135: the two items after storeAuthData(response)
storeAuthData(response) ==
    [storedToken |-> response.token, storedUser |-> Stringify(UserOf(response))]

\* auth.ts 152-155
clearAuthData == [storedToken |-> NoToken, storedUser |-> NoItem]

NoAuthCall == [op |-> "none", phase |-> "none"]
NoResponse == [token |-> "null", username |-> "null", email |-> "null",
               role |-> "null", experienceLevel |-> "null"]
NoAuthResult == [kind |-> "none", message |-> <<>>, response |-> NoResponse]

\* nothing stored, provider not mounted yet
AuthFresh ==
    /\ storedToken = NoToken
    /\ storedUser = NoItem
    /\ user = NoUser
    /\ isLoading = TRUE
    /\ authCall = NoAuthCall
    /\ authResult = NoAuthResult

\* App.tsx 40-50 and socket.ts 29: state after construction
InitApp ==
    /\ logs = <<>>
    /\ results = NoResults
    /\ isAnalyzing = FALSE
    /\ currentRequestId = NoRequestId
    /\ analysisStatus = Null
    /\ pc = "idle"
    /\ sid = 0
    /\ sess = NoSession
    /\ used = [polls |-> 0, frames |-> 0, disconnects |-> 0, ignored |-> 0]
    /\ pollTrace = <<>>
    /\ touched = FALSE
    /\ stompClient = NoClientRef
    /\ clients = [c \in SessionIds |-> NoClient]
    /\ hist = [calls |-> 0, pending |-> FALSE]

Init == InitApp /\ AuthFresh

\* exploration budget: events drawn so far
EventsLeft ==
    used.polls + used.frames + used.ignored + used.disconnects + hist.calls < MaxEvents

\* ------------------------------------------------- socket.ts operations
\* socket.ts 93-97 disconnectWebSocket, as a function of the module state
\* mutant: the client is deactivated but the reference is kept
disconnectWebSocketKeepsRef(sc, cl) ==
    [stompClient |-> sc,
     clients |-> IF sc = NoClientRef THEN cl
                 ELSE [cl EXCEPT ![sc].st = "deactivated",
                                 ![sc].deacts = @ + 1]]

disconnectWebSocket(sc, cl) ==
    [stompClient |-> NoClientRef,
     clients |-> IF sc = NoClientRef THEN cl
                 ELSE [cl EXCEPT ![sc].st = "deactivated",
                                 ![sc].deacts = @ + 1]]

\* socket.ts 49-85 connectWebSocket: new Client(...), stompClient.activate()
connectWebSocket(cl, requestId) ==
    [stompClient |-> requestId,
     clients |-> [cl EXCEPT ![requestId].st = "activating"]]

\* ------------------------------------------------- submission guards
\* String.prototype.trim on a text given as a sequence of tokens, " " being
\* white space
RECURSIVE Trim(_)
Trim(t) ==
    IF t = <<>> THEN t
    ELSE IF Head(t) = " " THEN Trim(Tail(t))
    ELSE IF t[Len(t)] = " " THEN Trim(SubSeq(t, 1, Len(t) - 1))
    ELSE t

\* contents of the URL field / the code editor at the time of a submit
FormTexts == {<<" ">>, <<" ", "https://github.com/user/repo">>}

\* mode, fileName || undefined and the compilation checkbox of the form (a
\* file name and a checked box exist in code mode only; the box starts
\* unchecked, AnalysisForm.tsx 66)
FormModes == {<<"url", Undefined, FALSE>>, <<"code", Undefined, FALSE>>,
              <<"code", "Main.java", TRUE>>}

\* AnalysisForm.tsx 78-88 handleSubmit: is onSubmit / onCodeSubmit invoked
FormCallsBack(analyzing, text) == ~analyzing /\ Trim(text) # <<>>

\* mutant: the handler starts a session whatever isAnalyzing is
HandlerProceedsAlways(analyzing) == TRUE

\* App.tsx 117 and 188: if (isAnalyzing) return
HandlerProceeds(analyzing) == ~analyzing

\* a submission that returns early; one made while an analysis runs is counted
Ignored ==
    IF isAnalyzing
    THEN /\ EventsLeft
         /\ used' = [used EXCEPT !.ignored = @ + 1]
         /\ UNCHANGED <<logs, appVars, pc, sid, sess, pollTrace, touched, sockVars, hist, authVars>>
    ELSE UNCHANGED vars

\* mutant: the log of the earlier session is not cleared
HandleAnalysisStartKeepsLog ==
    IF ~HandlerProceeds(isAnalyzing) THEN Ignored ELSE
    /\ sid < MaxSessions
    /\ isAnalyzing' = TRUE
    /\ logs' = AppendLog(logs, Entry("INFO", MsgSubmitting, "handler", sid + 1))
    /\ results' = NoResults
    /\ currentRequestId' = NoRequestId
    /\ analysisStatus' = Null
    /\ sid' = sid + 1
    /\ sess' = [NoSession EXCEPT !.kind = "url", !.submit = "pending"]
    /\ pollTrace' = <<>>
    /\ touched' = FALSE
    /\ pc' = "startAnalysis"
    /\ UNCHANGED <<sockVars, used, hist, authVars>>

\* ------------------------------------------------- handleAnalysisStart
\* App.tsx 116-128: guard, reset, first log line, startAnalysis(url) issued
HandleAnalysisStart ==
    IF ~HandlerProceeds(isAnalyzing) THEN Ignored ELSE
    /\ sid < MaxSessions
    /\ isAnalyzing' = TRUE
    /\ logs' = <<Entry("INFO", MsgSubmitting, "handler", sid + 1)>>
    /\ results' = NoResults
    /\ currentRequestId' = NoRequestId
    /\ analysisStatus' = Null
    /\ sid' = sid + 1
    /\ sess' = [NoSession EXCEPT !.kind = "url", !.submit = "pending"]
    /\ pollTrace' = <<>>
    /\ touched' = FALSE
    /\ pc' = "startAnalysis"
    /\ UNCHANGED <<sockVars, used, hist, authVars>>

\* App.tsx 128-148: startAnalysis resolved; channel opened; pollStatus entered
\* (api.ts 120-121: the first 2 s delay is pending)
StartAnalysisResolve ==
    /\ pc = "startAnalysis"
    /\ LET requestId == sid
           sock == connectWebSocket(clients, requestId)
       IN /\ currentRequestId' = requestId
          /\ logs' = AppendLog(AppendLog(logs,
                         Entry("INFO", MsgCreated(requestId), "handler", sid)),
                         Entry("INFO", MsgChecking, "handler", sid))
          /\ stompClient' = sock.stompClient
          /\ clients' = sock.clients
    /\ sess' = [sess EXCEPT !.submit = "ok"]
    /\ pc' = "pollDelay"
    /\ touched' = TRUE
    /\ UNCHANGED <<results, isAnalyzing, analysisStatus, sid, pollTrace, used, hist, authVars>>

\* mutant: the in-progress flag is not released when the submit call fails
StartAnalysisRejectStaysBusy(err) ==
    /\ pc = "startAnalysis"
    /\ logs' = CatchLogs(logs, err, sid)
    /\ analysisStatus' = "FAILED"
    /\ isAnalyzing' = isAnalyzing
    /\ sess' = [sess EXCEPT !.submit = "failed", !.failed = "startAnalysis"]
    /\ pc' = "idle"
    /\ touched' = TRUE
    /\ UNCHANGED <<results, currentRequestId, sid, pollTrace, sockVars, used, hist, authVars>>

\* App.tsx 172-178 reached from a rejected startAnalysis
StartAnalysisReject(err) ==
    /\ pc = "startAnalysis"
    /\ logs' = CatchLogs(logs, err, sid)
    /\ analysisStatus' = "FAILED"
    /\ isAnalyzing' = FALSE
    /\ sess' = [sess EXCEPT !.submit = "failed", !.failed = "startAnalysis"]
    /\ pc' = "idle"
    /\ touched' = TRUE
    /\ UNCHANGED <<results, currentRequestId, sid, pollTrace, sockVars, used, hist, authVars>>

\* mutant: the loop gives up after two status checks
PollTimerLimited(allowed, charge) ==
    /\ pc = "pollDelay"
    /\ allowed
    /\ sess.polls < 2
    /\ sess' = [sess EXCEPT !.polls = @ + 1]
    /\ used' = [used EXCEPT !.polls = @ + charge]
    /\ pc' = "checkStatus"
    /\ UNCHANGED <<logs, appVars, sid, pollTrace, touched, sockVars, hist, authVars>>

\* api.ts 121-123: the delay elapsed, checkStatus(requestId) is issued.
\* The loop itself has no limit: allowed caps the checks explored, and charge
\* says whether the check is drawn from the budget of events.
PollTimer(allowed, charge) ==
    /\ pc = "pollDelay"
    /\ allowed
    /\ sess' = [sess EXCEPT !.polls = @ + 1]
    /\ used' = [used EXCEPT !.polls = @ + charge]
    /\ pc' = "checkStatus"
    /\ UNCHANGED <<logs, appVars, sid, pollTrace, touched, sockVars, hist, authVars>>

\* mutant: the loop never returns, it keeps polling after COMPLETED
PollReturnsNever(status) == FALSE

\* mutant: the loop also returns on a non-terminal status
PollReturnsEarly(status) == status \in {"COMPLETED", "ANALYZING"}

\* does pollStatus return on this status (api.ts 129-131)
PollReturns(status) == status = "COMPLETED"

\* mutant: the FAILED branch is missing, the loop polls on
PollThrowsNever(status) == FALSE

\* does pollStatus throw on this status (api.ts 133-135)
PollThrows(status) == status = "FAILED"

\* mutant: only a null errorMessage falls back to the default text
PollFailureNullOnly(errorMessage) ==
    IF errorMessage.isNull
    THEN Error(MsgAnalysisFailed)
    ELSE Error(errorMessage.text)

\* api.ts 134: status.errorMessage || 'Analiz zavershyvsya z pomylkoyu'
PollFailure(errorMessage) ==
    IF errorMessage.isNull \/ errorMessage.text = <<>>
    THEN Error(MsgAnalysisFailed)
    ELSE Error(errorMessage.text)

\* mutant: the callback is skipped for the terminal response
NotifiesUpdateNonTerminal(status) == status \notin {"COMPLETED", "FAILED"}

\* api.ts 125-127: is onStatusUpdate invoked for this response (it is passed
\* by App.tsx 148, and the call precedes the terminal checks)
NotifiesUpdate(status) == TRUE

\* api.ts 123-138 + App.tsx 148-164 / 172-178: one status response.
\* The onStatusUpdate callback runs, then pollStatus returns (the handler goes
\* on to issue fetchResults), throws (catch/finally) or starts the next delay.
CheckStatusResolve(status, errorMessage) ==
    /\ pc = "checkStatus"
    /\ analysisStatus' = IF PollThrows(status) /\ ~PollReturns(status) THEN "FAILED"
                         ELSE IF NotifiesUpdate(status) THEN status
                         ELSE analysisStatus
    /\ LET statusMsg == getStatusMessage(status)
           afterCb   == IF NotifiesUpdate(status)
                        THEN StatusUpdateLogs(logs, statusMsg, sid)
                        ELSE logs
           upd       == IF NotifiesUpdate(status) THEN <<status>> ELSE <<>>
       IN /\ pollTrace' = Append(pollTrace,
                  [status |-> status, appended |-> afterCb # logs,
                   touchedBefore |-> touched])
          /\ IF PollReturns(status)
             THEN /\ logs' = AppendLog(afterCb, Entry("INFO", MsgLoading, "handler", sid))
                  /\ sess' = [sess EXCEPT !.terminal = status,
                                          !.fetches = @ + 1,
                                          !.updates = @ \o upd]
                  /\ pc' = "fetchResults"
                  /\ isAnalyzing' = isAnalyzing
                  /\ touched' = TRUE
             ELSE IF PollThrows(status)
             THEN /\ logs' = CatchLogs(afterCb, PollFailure(errorMessage), sid)
                  /\ sess' = [sess EXCEPT !.terminal = status,
                                          !.updates = @ \o upd,
                                          !.failedWith = errorMessage]
                  /\ pc' = "idle"
                  /\ isAnalyzing' = FALSE
                  /\ touched' = TRUE
             ELSE /\ logs' = afterCb
                  /\ sess' = [sess EXCEPT !.updates = @ \o upd]
                  /\ pc' = "pollDelay"
                  /\ isAnalyzing' = isAnalyzing
                  /\ touched' = FALSE
    /\ UNCHANGED <<results, currentRequestId, sid, sockVars, used, hist, authVars>>

\* api.ts 93-95 -> App.tsx 172-178: the status request itself failed
CheckStatusReject ==
    /\ pc = "checkStatus"
    /\ logs' = CatchLogs(logs, Error(MsgStatusFailed), sid)
    /\ analysisStatus' = "FAILED"
    /\ isAnalyzing' = FALSE
    /\ sess' = [sess EXCEPT !.failed = "checkStatus"]
    /\ pc' = "idle"
    /\ touched' = TRUE
    /\ UNCHANGED <<results, currentRequestId, sid, pollTrace, sockVars, used, hist, authVars>>

\* App.tsx 164-170, 176-178: fetchResults resolved with n violations
FetchResultsResolve(n) ==
    /\ pc = "fetchResults"
    /\ results' = [n |-> n, src |-> "fetch", of |-> sid]
    /\ logs' = AppendLog(logs, Entry("INFO", MsgFound(n), "handler", sid))
    /\ isAnalyzing' = FALSE
    /\ pc' = "idle"
    /\ touched' = TRUE
    /\ UNCHANGED <<currentRequestId, analysisStatus, sid, sess, pollTrace,
                   sockVars, used, hist, authVars>>

\* mutant: the rejection of fetchResults escapes the handler (no catch/finally)
FetchResultsRejectUncaught ==
    /\ pc = "fetchResults"
    /\ sess' = [sess EXCEPT !.failed = "fetchResults"]
    /\ pc' = "idle"
    /\ UNCHANGED <<logs, appVars, sid, pollTrace, touched, sockVars, used, hist, authVars>>

\* api.ts 158-160 -> App.tsx 172-178: fetchResults rejected
FetchResultsReject ==
    /\ pc = "fetchResults"
    /\ logs' = CatchLogs(logs, Error(MsgResultsFailed), sid)
    /\ analysisStatus' = "FAILED"
    /\ isAnalyzing' = FALSE
    /\ sess' = [sess EXCEPT !.failed = "fetchResults"]
    /\ pc' = "idle"
    /\ touched' = TRUE
    /\ UNCHANGED <<results, currentRequestId, sid, pollTrace, sockVars, used, hist, authVars>>


\* ------------------------------------------------- handleCodeAnalysis
\* result bundles of the inline-code endpoint (fields read by App.tsx 210-257)
CodeResults ==
    { [success |-> FALSE, errorMessage |-> <<"Code is empty">>,
       compilationSuccess |-> Undefined, compilationErrors |-> <<>>,
       violations |-> 0, violationCount |-> 0, qualityScore |-> -1],
      [success |-> TRUE, errorMessage |-> <<>>,
       compilationSuccess |-> Undefined, compilationErrors |-> <<>>,
       violations |-> 0, violationCount |-> 0, qualityScore |-> -1],
      [success |-> TRUE, errorMessage |-> <<>>,
       compilationSuccess |-> "true", compilationErrors |-> <<>>,
       violations |-> 3, violationCount |-> 3, qualityScore |-> 90],
      [success |-> TRUE, errorMessage |-> <<>>,
       compilationSuccess |-> "false",
       compilationErrors |-> <<[lineNumber |-> 2, message |-> <<"';' expected">>]>>,
       violations |-> 3, violationCount |-> 3, qualityScore |-> 70] }

FileNames == {Undefined, "Main.java"}

MsgCodeStart        == <<"Pochynayu analiz kodu...">>
MsgFile(f)          == <<"Fail: ", f>>
MsgCompileCheck     == <<"Perevirka kompilyatsiyi...">>
MsgCompiles         == <<"(check) ", "Kod uspishno kompilyuyetsya">>
MsgNotCompiles      == <<"(cross) ", "Kod ne kompilyuyetsya">>
MsgCompileError(e)  == <<"Ryadok ", NumStr(e.lineNumber), ": ">> \o e.message
MsgCheckstyle       == <<"Zapusk analizu Checkstyle...">>
MsgScore(q)         == <<(IF q >= 80 THEN "(star) " ELSE IF q >= 60 THEN "(thumb) " ELSE "(warn) "),
                         "Otsinka yakosti kodu: ", "q", "/100">>
MsgCodeDone(n)      == <<"Analiz zaversheno", ". Znaydeno ", NumStr(n), " porushen.">>

RECURSIVE CompileErrorLogs(_, _, _)
\* App.tsx 222-227: one ERROR line per compilation error
CompileErrorLogs(l, errs, s) ==
    IF errs = <<>> THEN l
    ELSE CompileErrorLogs(
            AppendLog(l, Entry("ERROR", MsgCompileError(Head(errs)), "handler", s)),
            Tail(errs), s)

\* App.tsx 187-204: guard, reset, first log lines, analyzeCode issued
\* App.tsx 204-208: the request body of analyzeCode
AnalyzeCodeRequest(fileName) ==
    [fileName |-> fileName, checkCompilation |-> TRUE]

\* App.tsx 187: the handler declares (code, fileName); a third argument of
\* the caller (AnalysisForm.tsx 87) is not a parameter and is never read
HandleCodeAnalysis(fileName, checkCompilation) ==
    IF ~HandlerProceeds(isAnalyzing) THEN Ignored ELSE
    /\ sid < MaxSessions
    /\ isAnalyzing' = TRUE
    /\ LET s  == sid + 1
           l0 == <<Entry("INFO", MsgCodeStart, "handler", s)>>
           l1 == IF fileName # Undefined
                 THEN AppendLog(l0, Entry("INFO", MsgFile(fileName), "handler", s))
                 ELSE l0
       IN logs' = AppendLog(l1, Entry("INFO", MsgCompileCheck, "handler", s))
    /\ results' = NoResults
    /\ analysisStatus' = Null
    /\ sid' = sid + 1
    /\ sess' = [NoSession EXCEPT !.kind = "code", !.submit = "pending",
                                 !.request = AnalyzeCodeRequest(fileName),
                                 !.boxChecked = checkCompilation]
    /\ pollTrace' = <<>>
    /\ touched' = FALSE
    /\ pc' = "analyzeCode"
    /\ UNCHANGED <<currentRequestId, sockVars, used, hist, authVars>>

\* App.tsx 204-259, 265-267: the analyzeCode response
AnalyzeCodeResolve(result) ==
    /\ pc = "analyzeCode"
    /\ IF ~result.success
       THEN /\ logs' = AppendLog(logs,
                          Entry("ERROR", MsgError(result.errorMessage), "handler", sid))
            /\ analysisStatus' = "FAILED"
            /\ results' = results
       ELSE /\ LET l1 == IF result.compilationSuccess = Undefined THEN logs
                         ELSE IF result.compilationSuccess = "true"
                         THEN AppendLog(logs, Entry("INFO", MsgCompiles, "handler", sid))
                         ELSE CompileErrorLogs(
                                AppendLog(logs, Entry("WARNING", MsgNotCompiles, "handler", sid)),
                                result.compilationErrors, sid)
                    l2 == AppendLog(l1, Entry("INFO", MsgCheckstyle, "handler", sid))
                    l3 == IF result.qualityScore >= 0
                          THEN AppendLog(l2, Entry("INFO", MsgScore(result.qualityScore),
                                                   "handler", sid))
                          ELSE l2
               IN logs' = AppendLog(l3, Entry("INFO", MsgCodeDone(result.violationCount),
                                              "handler", sid))
            /\ results' = [n |-> result.violations, src |-> "code", of |-> sid]
            /\ analysisStatus' = "COMPLETED"
    /\ sess' = [sess EXCEPT !.submit = "ok"]
    /\ isAnalyzing' = FALSE
    /\ pc' = "idle"
    /\ touched' = TRUE
    /\ UNCHANGED <<currentRequestId, sid, pollTrace, sockVars, used, hist, authVars>>

\* App.tsx 261-267: analyzeCode rejected
AnalyzeCodeReject(err) ==
    /\ pc = "analyzeCode"
    /\ logs' = CatchLogs(logs, err, sid)
    /\ analysisStatus' = "FAILED"
    /\ sess' = [sess EXCEPT !.submit = "failed", !.failed = "analyzeCode"]
    /\ isAnalyzing' = FALSE
    /\ pc' = "idle"
    /\ touched' = TRUE
    /\ UNCHANGED <<results, currentRequestId, sid, pollTrace, sockVars, used, hist, authVars>>

\* ------------------------------------------------- AnalysisForm
\* AnalysisForm.tsx 78-89 handleSubmit with the props App passes
\* (App.tsx 556-558): the callback of the current mode, or an early return
\* (AnalysisForm.tsx 87 passes the checkbox state of line 66 as third argument)
FormSubmit(mode, text, fileName, checkCompilation) ==
    IF FormCallsBack(isAnalyzing, text)
    THEN IF mode = "url" THEN HandleAnalysisStart
         ELSE HandleCodeAnalysis(fileName, checkCompilation)
    ELSE Ignored

\* ------------------------------------------------- loadHistoryResults
\* App.tsx 80-82: fetchResults(String(requestId)) issued for a history item
LoadHistoryResults ==
    /\ EventsLeft
    /\ ~hist.pending
    /\ hist' = [calls |-> hist.calls + 1, pending |-> TRUE]
    /\ UNCHANGED <<logs, appVars, pc, sid, sess, pollTrace, touched, used, sockVars, authVars>>

\* App.tsx 83-84: results and log replaced
HistoryResolve(n) ==
    /\ hist.pending
    /\ hist' = [hist EXCEPT !.pending = FALSE]
    /\ results' = [n |-> n, src |-> "hist", of |-> 0]
    /\ logs' = <<Entry("INFO", MsgHistory(n), "hist", 0)>>
    /\ touched' = TRUE
    /\ UNCHANGED <<isAnalyzing, currentRequestId, analysisStatus, pc, sid, sess,
                   pollTrace, used, sockVars, authVars>>

\* App.tsx 85-87: console.error only
HistoryReject ==
    /\ hist.pending
    /\ hist' = [hist EXCEPT !.pending = FALSE]
    /\ UNCHANGED <<logs, appVars, pc, sid, sess, pollTrace, touched, used, sockVars, authVars>>

\* ------------------------------------------------- STOMP client callbacks
\* App.tsx 136-138: onLogReceived passed to connectWebSocket for session c
onLogReceived(l, logEntry, c) ==
    AppendLog(l, Entry(logEntry.level, logEntry.message, "chan", c))

\* App.tsx 139-142: onAnalysisComplete passed to connectWebSocket for session c
onAnalysisComplete(l, c) ==
    AppendLog(l, Entry("INFO", MsgWsClosed, "chan", c))

\* socket.ts 70: is this entry a completion signal
IsCompletion(logEntry) ==
    StartsWith(logEntry.message, CompletionMarker) \/ logEntry.level = "ERROR"

\* socket.ts 60-75 onConnect of client c.  stompClient?.subscribe(...) goes
\* through the module singleton: no subscription when it is null, and the
\* library refuses to subscribe on a client that has no connection yet.
OnConnect(c) ==
    /\ clients[c].st = "activating"
    /\ logs' = onLogReceived(logs, [level |-> "INFO", message |-> MsgWsConnected], c)
    /\ clients' = [clients EXCEPT
                      ![c].st = "connected",
                      ![c].sub = IF stompClient = c THEN c
                                 ELSE IF stompClient # NoClientRef
                                         /\ clients[stompClient].st = "connected"
                                      THEN stompClient
                                      ELSE 0]
    /\ touched' = TRUE
    /\ UNCHANGED <<appVars, pc, sid, sess, pollTrace, stompClient, used, hist, authVars>>

\* socket.ts 65-74: the subscription handler created by client c's onConnect.
\* Frames already received keep being dispatched after deactivate().
OnMessage(c, logEntry) ==
    /\ clients[c].sub # 0
    /\ EventsLeft
    /\ used' = [used EXCEPT !.frames = @ + 1]
    /\ IF IsCompletion(logEntry)
       THEN LET sock == disconnectWebSocket(stompClient, clients)
            IN /\ logs' = onAnalysisComplete(onLogReceived(logs, logEntry, c), c)
               /\ stompClient' = sock.stompClient
               /\ clients' = [sock.clients EXCEPT
                                 ![c].completes = @ + 1,
                                 ![c].errs = IF logEntry.level = "ERROR" THEN @ + 1 ELSE @]
       ELSE /\ logs' = onLogReceived(logs, logEntry, c)
            /\ stompClient' = stompClient
            /\ clients' = clients
    /\ touched' = TRUE
    /\ UNCHANGED <<appVars, pc, sid, sess, pollTrace, hist, authVars>>

\* mutant: a STOMP error also marks the analysis as failed
OnStompErrorFails(c) ==
    /\ clients[c].st \in {"activating", "connected"}
    /\ EventsLeft
    /\ used' = [used EXCEPT !.frames = @ + 1]
    /\ logs' = onAnalysisComplete(
                  onLogReceived(logs, [level |-> "ERROR", message |-> MsgStompError], c), c)
    /\ clients' = [clients EXCEPT ![c].completes = @ + 1]
    /\ analysisStatus' = "FAILED"
    /\ touched' = TRUE
    /\ UNCHANGED <<results, isAnalyzing, currentRequestId, pc, sid, sess, pollTrace,
                   stompClient, hist, authVars>>

\* socket.ts 76-80 onStompError of client c
OnStompError(c) ==
    /\ clients[c].st \in {"activating", "connected"}
    /\ EventsLeft
    /\ used' = [used EXCEPT !.frames = @ + 1]
    /\ logs' = onAnalysisComplete(
                  onLogReceived(logs, [level |-> "ERROR", message |-> MsgStompError], c), c)
    /\ clients' = [clients EXCEPT ![c].completes = @ + 1]
    /\ touched' = TRUE
    /\ UNCHANGED <<appVars, pc, sid, sess, pollTrace, stompClient, hist, authVars>>

\* ------------------------------------------------- socket.ts used directly
\* socket.ts 49-85 called by a user of the module with the next request id
\* (the callbacks it passes are the log-appending ones of App.tsx 136-142)
SockConnect ==
    /\ sid < MaxSessions
    /\ sid' = sid + 1
    /\ LET sock == connectWebSocket(clients, sid + 1)
       IN /\ stompClient' = sock.stompClient
          /\ clients' = sock.clients
    /\ UNCHANGED <<logs, appVars, pc, sess, used, pollTrace, touched, hist, authVars>>

\* socket.ts 93-97 called by a user of the module
SockDisconnect ==
    /\ EventsLeft
    /\ LET sock == disconnectWebSocket(stompClient, clients)
       IN /\ stompClient' = sock.stompClient
          /\ clients' = sock.clients
    /\ used' = [used EXCEPT !.disconnects = @ + 1]
    /\ UNCHANGED <<logs, appVars, pc, sid, sess, pollTrace, touched, hist, authVars>>

\* ------------------------------------------------- AuthProvider and auth.ts
ExperienceLevels == {"STUDENT", "JUNIOR", "ADVANCED"}

MsgLoginFailed    == <<"Nevirne imya korystuvacha abo parol">>
MsgRegisterFailed == <<"Pomylka reyestratsiyi">>
MsgFetchFailed    == <<"Failed to fetch">>
MsgBadJson        == <<"Unexpected token in JSON">>

\* JavaScript a || b on string | null | undefined values
Or(a, b) == IF a.isNull \/ a.text = <<>> THEN b ELSE a

\* error bodies of a response that is not ok (absent fields are null)
AuthErrorBodies ==
    { [error |-> NullMessage, username |-> NullMessage,
       email |-> NullMessage, password |-> NullMessage],
      [error |-> Text(<<"Bad credentials">>), username |-> NullMessage,
       email |-> NullMessage, password |-> NullMessage],
      [error |-> Text(<<>>), username |-> Text(<<"Username is taken">>),
       email |-> NullMessage, password |-> NullMessage],
      [error |-> NullMessage, username |-> NullMessage,
       email |-> Text(<<"Email is invalid">>), password |-> Text(<<"Too short">>)] }

\* auth.ts 204
LoginErrorMessage(body) == Or(body.error, Text(MsgLoginFailed)).text

\* auth.ts 184
RegisterErrorMessage(body) ==
    Or(Or(Or(Or(body.error, body.username), body.email), body.password),
       Text(MsgRegisterFailed)).text

AuthErrorMessage(op, body) ==
    IF op = "login" THEN LoginErrorMessage(body) ELSE RegisterErrorMessage(body)

Rejected(message) == [kind |-> "rejected", message |-> message, response |-> NoResponse]
Resolved(response) == [kind |-> "resolved", message |-> <<>>, response |-> response]

\* AuthContext.tsx 40-47: the mount effect
ProviderMount ==
    /\ isLoading
    /\ user' = IF getUser(storedUser) # NoUser /\ isAuthenticated(storedToken)
               THEN getUser(storedUser)
               ELSE user
    /\ isLoading' = FALSE
    /\ UNCHANGED <<storedToken, storedUser, authCall, authResult>>
    /\ UNCHANGED <<logs, appVars, pc, sid, sess, used, pollTrace, touched, sockVars, hist>>

\* AuthContext.tsx 49-50 -> auth.ts 195-200: login issues its fetch
ProviderLogin ==
    /\ ~isLoading
    /\ authCall = NoAuthCall
    /\ authCall' = [op |-> "login", phase |-> "fetch"]
    /\ authResult' = NoAuthResult
    /\ UNCHANGED <<storedToken, storedUser, user, isLoading>>
    /\ UNCHANGED <<logs, appVars, pc, sid, sess, used, pollTrace, touched, sockVars, hist>>

\* AuthContext.tsx 60-61 -> auth.ts 175-180: register issues its fetch
ProviderRegister ==
    /\ ~isLoading
    /\ authCall = NoAuthCall
    /\ authCall' = [op |-> "register", phase |-> "fetch"]
    /\ authResult' = NoAuthResult
    /\ UNCHANGED <<storedToken, storedUser, user, isLoading>>
    /\ UNCHANGED <<logs, appVars, pc, sid, sess, used, pollTrace, touched, sockVars, hist>>

\* auth.ts 176 / 196: fetch rejects (no connection); the rejection passes
\* through the provider method to its caller
AuthFetchRejects ==
    /\ authCall.phase = "fetch"
    /\ authCall' = NoAuthCall
    /\ authResult' = Rejected(MsgFetchFailed)
    /\ UNCHANGED <<storedToken, storedUser, user, isLoading>>
    /\ UNCHANGED <<logs, appVars, pc, sid, sess, used, pollTrace, touched, sockVars, hist>>

\* auth.ts 182 / 202: the response arrives; response.ok decides the branch
AuthFetchResponds(ok) ==
    /\ authCall.phase = "fetch"
    /\ authCall' = [authCall EXCEPT !.phase = IF ok THEN "okBody" ELSE "errorBody"]
    /\ UNCHANGED <<storedToken, storedUser, user, isLoading, authResult>>
    /\ UNCHANGED <<logs, appVars, pc, sid, sess, used, pollTrace, touched, sockVars, hist>>

\* mutant: a refused login or register wipes the stored session
AuthErrorBodyClears(body) ==
    /\ authCall.phase = "errorBody"
    /\ authCall' = NoAuthCall
    /\ authResult' = Rejected(AuthErrorMessage(authCall.op, body))
    /\ storedToken' = clearAuthData.storedToken
    /\ storedUser' = clearAuthData.storedUser
    /\ user' = NoUser
    /\ UNCHANGED isLoading
    /\ UNCHANGED <<logs, appVars, pc, sid, sess, used, pollTrace, touched, sockVars, hist>>

\* auth.ts 182-185 / 202-205: the error body is read and the call throws
AuthErrorBody(body) ==
    /\ authCall.phase = "errorBody"
    /\ authCall' = NoAuthCall
    /\ authResult' = Rejected(AuthErrorMessage(authCall.op, body))
    /\ UNCHANGED <<storedToken, storedUser, user, isLoading>>
    /\ UNCHANGED <<logs, appVars, pc, sid, sess, used, pollTrace, touched, sockVars, hist>>

\* auth.ts 183 / 187 / 203 / 207: response.json() rejects on a body that is
\* not JSON
AuthBodyRejects ==
    /\ authCall.phase \in {"okBody", "errorBody"}
    /\ authCall' = NoAuthCall
    /\ authResult' = Rejected(MsgBadJson)
    /\ UNCHANGED <<storedToken, storedUser, user, isLoading>>
    /\ UNCHANGED <<logs, appVars, pc, sid, sess, used, pollTrace, touched, sockVars, hist>>

\* auth.ts 187-189 / 207-209 and AuthContext.tsx 51-57 / 62-68: the body is
\* read, storeAuthData runs, and the provider's continuation (a microtask of
\* the same turn) sets the user and returns the response
AuthOkBody(response) ==
    /\ authCall.phase = "okBody"
    /\ authCall' = NoAuthCall
    /\ storedToken' = storeAuthData(response).storedToken
    /\ storedUser' = storeAuthData(response).storedUser
    /\ user' = UserOf(response)
    /\ authResult' = Resolved(response)
    /\ UNCHANGED isLoading
    /\ UNCHANGED <<logs, appVars, pc, sid, sess, used, pollTrace, touched, sockVars, hist>>

\* AuthContext.tsx 71-74 -> auth.ts 215-217
ProviderLogout ==
    /\ ~isLoading
    /\ storedToken' = clearAuthData.storedToken
    /\ storedUser' = clearAuthData.storedUser
    /\ user' = NoUser
    /\ UNCHANGED <<isLoading, authCall, authResult>>
    /\ UNCHANGED <<logs, appVars, pc, sid, sess, used, pollTrace, touched, sockVars, hist>>

\* AuthContext.tsx 76-80 with updates = { experienceLevel }
ProviderUpdateUser(experienceLevel) ==
    /\ ~isLoading
    /\ user' = IF user # NoUser
               THEN [user EXCEPT !.experienceLevel = experienceLevel]
               ELSE user
    /\ UNCHANGED <<storedToken, storedUser, isLoading, authCall, authResult>>
    /\ UNCHANGED <<logs, appVars, pc, sid, sess, used, pollTrace, touched, sockVars, hist>>

\* a page load: the items a previous visit left in localStorage
InitAuth ==
    /\ InitApp
    /\ user = NoUser
    /\ isLoading = TRUE
    /\ authCall = NoAuthCall
    /\ authResult = NoAuthResult
    /\ \/ storedToken = NoToken /\ storedUser = NoItem
       \/ \E r \in AuthResponses :
             /\ storedToken = storeAuthData(r).storedToken
             /\ storedUser = storeAuthData(r).storedUser

NextAuth ==
    \/ ProviderMount
    \/ ProviderLogin
    \/ ProviderRegister
    \/ AuthFetchRejects
    \/ \E ok \in BOOLEAN : AuthFetchResponds(ok)
    \/ \E body \in AuthErrorBodies : AuthErrorBody(body)
    \/ AuthBodyRejects
    \/ \E r \in AuthResponses : AuthOkBody(r)
    \/ ProviderLogout
    \/ \E l \in ExperienceLevels : ProviderUpdateUser(l)

SpecAuth == InitAuth /\ [][NextAuth]_vars

\* ------------------------------------------------- specification
Next ==
    \/ HandleAnalysisStart
    \/ StartAnalysisResolve
    \/ \E err \in SubmitErrors : StartAnalysisReject(err)
    \/ PollTimer(EventsLeft, 1)
    \/ \E st \in Statuses, em \in BackendErrorMessages : CheckStatusResolve(st, em)
    \/ CheckStatusReject
    \/ \E n \in ViolationCounts : FetchResultsResolve(n)
    \/ FetchResultsReject
    \/ \E m \in FormModes : m[1] = "code" /\ HandleCodeAnalysis(m[2], m[3])
    \/ \E m \in FormModes, text \in FormTexts : FormSubmit(m[1], text, m[2], m[3])
    \/ \E r \in CodeResults : AnalyzeCodeResolve(r)
    \/ \E err \in SubmitErrors : AnalyzeCodeReject(err)
    \/ LoadHistoryResults
    \/ \E n \in ViolationCounts : HistoryResolve(n)
    \/ HistoryReject
    \/ \E c \in SessionIds : OnConnect(c)
    \/ \E c \in SessionIds, m \in ChannelMessages : OnMessage(c, m)
    \/ \E c \in SessionIds : OnStompError(c)

Spec == Init /\ [][Next]_vars

\* socket.ts driven directly: connect and disconnect calls in any order,
\* interleaved with the STOMP client's callbacks
NextSocket ==
    \/ SockConnect
    \/ SockDisconnect
    \/ \E c \in SessionIds : OnConnect(c)
    \/ \E c \in SessionIds, m \in ChannelMessages : OnMessage(c, m)
    \/ \E c \in SessionIds : OnStompError(c)

SpecSocket == Init /\ [][NextSocket]_vars

\* spec section 8, Scenario A: one URL submission, the status responses
\* PENDING, CLONING, ANALYZING, COMPLETED, then a results response of 3
\* violations; the real-time channel of the session runs alongside.
ScenarioAStatuses == <<"PENDING", "CLONING", "ANALYZING", "COMPLETED">>
ScenarioAResults == <<"violation 1", "violation 2", "violation 3">>
ScenarioAViolations == Len(ScenarioAResults)

NextA ==
    \/ (sid = 0 /\ HandleAnalysisStart)
    \/ StartAnalysisResolve
    \/ PollTimer(sess.polls < Len(ScenarioAStatuses), 0)
    \/ (sess.polls \in 1..Len(ScenarioAStatuses)
          /\ CheckStatusResolve(ScenarioAStatuses[sess.polls], NullMessage))
    \/ FetchResultsResolve(ScenarioAViolations)
    \/ \E c \in SessionIds : OnConnect(c)
    \/ \E c \in SessionIds, m \in ChannelMessages : OnMessage(c, m)
    \/ \E c \in SessionIds : OnStompError(c)

SpecA == Init /\ [][NextA]_vars

\* ------------------------------------------------- derived notions
Terminal == {"COMPLETED", "FAILED"}

RECURSIVE FirstTerminal(_)
\* the first terminal status in a sequence of status responses, or "none"
FirstTerminal(pt) ==
    IF pt = <<>> THEN "none"
    ELSE IF Head(pt).status \in Terminal THEN Head(pt).status
    ELSE FirstTerminal(Tail(pt))

Polling == pc \in {"pollDelay", "checkStatus"}

ChannelActive(c) == clients[c].st \in {"activating", "connected"}

StatusMessages == {getStatusMessage(st) : st \in Statuses}

IsStatusLine(e) == e.message \in StatusMessages

\* the log was not replaced by loadHistoryResults since the submission
LogOfSession == logs # <<>> /\ logs[1].src = "handler" /\ logs[1].of = sid

\* ------------------------------------------------- claims

\* C1: in the URL flow fetchResults is called exactly once, and exactly when
\* the first terminal status response seen by pollStatus is COMPLETED; it is
\* never called before that response or while the polling loop is running.
C1_FetchOnceAfterCompleted ==
    /\ sess.fetches <= 1
    /\ (sess.fetches = 1) <=> (sess.kind = "url" /\ FirstTerminal(pollTrace) = "COMPLETED")
    /\ (Polling \/ pc = "startAnalysis") => sess.fetches = 0
    /\ pc = "fetchResults" => pollTrace[Len(pollTrace)].status = "COMPLETED"

\* C1 witness: COMPLETED arrived as the second response, with a channel entry
\* interleaved in the log, and the single fetchResults call is in flight
C1_Witness ==
    /\ pc = "fetchResults"
    /\ sess.fetches = 1
    /\ Len(pollTrace) = 2
    /\ \E i \in DOMAIN logs : logs[i].src = "chan"

\* C2: when the first terminal status response is FAILED, fetchResults is
\* never called for the session and no results are stored for it.
C2_NoFetchAfterFailed ==
    FirstTerminal(pollTrace) = "FAILED" =>
        /\ sess.fetches = 0
        /\ pc # "fetchResults"
        /\ (results = NoResults \/ results.src = "hist")

\* C2 witness: a session ended by a FAILED response after a non-terminal one
C2_Witness ==
    /\ Len(pollTrace) = 2
    /\ pollTrace[1].status = "ANALYZING"
    /\ pollTrace[2].status = "FAILED"
    /\ pc = "idle"
    /\ analysisStatus = "FAILED"

\* C3 (as stated): two consecutive status responses with the identical status
\* append at most one status line, in every interleaving.
C3_AtMostOneLinePerPair ==
    \A i \in 1..(Len(pollTrace) - 1) :
        pollTrace[i].status = pollTrace[i + 1].status =>
            ~(pollTrace[i].appended /\ pollTrace[i + 1].appended)

\* C3 (amended): two consecutive status responses with the identical status
\* append at most one status line when nothing else changed the log between
\* the two callbacks; the second response then appends nothing.
C3_AtMostOneLineWhenAdjacent ==
    \A i \in 1..(Len(pollTrace) - 1) :
        (pollTrace[i].status = pollTrace[i + 1].status
            /\ ~pollTrace[i + 1].touchedBefore) =>
                ~pollTrace[i + 1].appended

\* C3 witness: an identical adjacent pair whose first response appended the line
C3_Witness ==
    /\ Len(pollTrace) = 2
    /\ pollTrace[1].status = "PENDING"
    /\ pollTrace[2].status = "PENDING"
    /\ pollTrace[1].appended
    /\ ~pollTrace[2].touchedBefore
    /\ ~pollTrace[2].appended

\* C4: once a new submission has begun, the log holds no entry appended on
\* behalf of an earlier session (poll callback or channel callbacks).
C4_NoEntryOfEarlierSession ==
    \A i \in DOMAIN logs : logs[i].src # "hist" => logs[i].of = sid

\* C5: when the submit call of a new session is issued no channel of an
\* earlier session is active and no earlier polling loop runs; at most one
\* channel is active at any time.
C5_TeardownBeforeSubmit ==
    /\ pc \in {"startAnalysis", "analyzeCode"} =>
           \A c \in SessionIds : ~ChannelActive(c)
    /\ Cardinality({c \in SessionIds : ChannelActive(c)}) <= 1

\* C6: a channel that received an ERROR-level message has signalled
\* completion exactly once and has been closed exactly once, whatever was
\* delivered to it afterwards.
C6_ErrorClosesOnce ==
    \A c \in SessionIds :
        clients[c].errs >= 1 => clients[c].completes = 1 /\ clients[c].deacts = 1

\* C7: the channel-closed callback of a channel is invoked at most once, and
\* exactly once by the time the channel has been closed.
C7_ClosedCallbackOnce ==
    \A c \in SessionIds :
        /\ clients[c].completes <= 1
        /\ clients[c].st = "deactivated" => clients[c].completes = 1

\* C8: Scenario A ends with status COMPLETED, 3 results, and a log holding
\* exactly the 4 status lines in response order, followed by the line that
\* reports the loaded results.
C8_ScenarioA ==
    (pc = "idle" /\ sid = 1) =>
        /\ analysisStatus = "COMPLETED"
        /\ results.n = ScenarioAViolations
        /\ results.src = "fetch"
        /\ LET lines == SelectSeq(logs, IsStatusLine)
           IN /\ Len(lines) = Len(ScenarioAStatuses)
              /\ \A k \in DOMAIN lines :
                    lines[k].message = getStatusMessage(ScenarioAStatuses[k])
        /\ \E j \in DOMAIN logs :
              /\ logs[j].message = MsgFound(ScenarioAViolations)
              /\ \A i \in DOMAIN logs : IsStatusLine(logs[i]) => i < j

\* C8 witness: Scenario A ran to its end with channel entries in the log
C8_Witness ==
    /\ pc = "idle"
    /\ sid = 1
    /\ Len(pollTrace) = Len(ScenarioAStatuses)
    /\ results.n = ScenarioAViolations
    /\ \E i \in DOMAIN logs : logs[i].src = "chan"

\* C9: a URL submission whose submit call failed ends FAILED with an
\* ERROR-level entry carrying the failure message; no status check was made,
\* no channel opened and fetchResults not called for it.
C9_SubmitFailure ==
    (sess.kind = "url" /\ sess.submit = "failed") =>
        /\ analysisStatus = "FAILED"
        /\ ~isAnalyzing
        /\ sess.polls = 0
        /\ sess.fetches = 0
        /\ pollTrace = <<>>
        /\ clients[sid].st = "none"
        /\ stompClient # sid
        /\ LogOfSession =>
              \E i \in DOMAIN logs, err \in SubmitErrors :
                  /\ logs[i].level = "ERROR"
                  /\ logs[i].of = sid
                  /\ logs[i].message = MsgError(ErrorMessageOf(err))

\* C9 witness: the second submission failed while the channel of the first
\* session was still active
C9_Witness ==
    /\ sid = 2
    /\ sess.kind = "url"
    /\ sess.submit = "failed"
    /\ ChannelActive(1)
    /\ LogOfSession

\* C10: an inline-code submission ends in a terminal status taken from the
\* single analyzeCode response, with no sessionId, no channel open, and no
\* status check or fetchResults call, whatever ran before it.
C10_CodePathIsolated ==
    (sess.kind = "code" /\ pc = "idle") =>
        /\ analysisStatus \in Terminal
        /\ (analysisStatus = "COMPLETED" => results.src \in {"code", "hist"})
        /\ sess.polls = 0
        /\ sess.fetches = 0
        /\ currentRequestId = NoRequestId
        /\ \A c \in SessionIds : ~ChannelActive(c)

\* C11 as stated: once the status is COMPLETED or FAILED it changes only
\* through the reset performed by a new submission.
C11_TerminalAbsorbing ==
    [][(analysisStatus \in Terminal /\ analysisStatus' # analysisStatus)
          => sid' # sid]_vars

\* C11 amended: a terminal status changes only through the reset of a new
\* submission, or when the result fetch that follows COMPLETED fails and the
\* handler's catch turns COMPLETED into FAILED; FAILED is left only by a reset.
C11_TerminalAbsorbingButFetch ==
    [][(analysisStatus \in Terminal /\ analysisStatus' # analysisStatus)
          => \/ sid' # sid /\ analysisStatus' = Null
             \/ /\ pc = "fetchResults"
                /\ sess'.failed = "fetchResults"
                /\ analysisStatus = "COMPLETED"
                /\ analysisStatus' = "FAILED"]_vars

\* C11 witness: the status is terminal and events of the session arrived
\* after it: polling ended COMPLETED, the results were fetched, and a channel
\* message of the same session was logged after the handler's last entry
C11_Witness ==
    /\ analysisStatus = "COMPLETED"
    /\ pc = "idle"
    /\ sess.terminal = "COMPLETED"
    /\ LogOfSession
    /\ \E i \in DOMAIN logs :
          /\ i < Len(logs)
          /\ logs[i].src = "handler"
          /\ logs[i].message = MsgFound(results.n)
          /\ logs[Len(logs)].src = "chan"
          /\ logs[Len(logs)].of = sid

\* the ERROR entries the catch block can write for a rejected backend call
FailureEntryMessages(call) ==
    IF call = "checkStatus" THEN {MsgError(MsgStatusFailed)}
    ELSE IF call = "fetchResults" THEN {MsgError(MsgResultsFailed)}
    ELSE {MsgError(ErrorMessageOf(err)) : err \in SubmitErrors}

\* the last entry the session handler wrote to the log
LastHandlerEntry ==
    LET idx == {i \in DOMAIN logs : logs[i].src = "handler" /\ logs[i].of = sid}
    IN logs[CHOOSE i \in idx : \A j \in idx : j <= i]

\* C12: after any backend call of the session was rejected (startAnalysis,
\* a checkStatus, fetchResults, analyzeCode) the handler has finished, the
\* status is FAILED, isAnalyzing is false and the handler's last log entry is
\* an ERROR-level entry carrying the failure message.
C12_BackendFailureCaught ==
    (sess.failed # "none") =>
        /\ pc = "idle"
        /\ analysisStatus = "FAILED"
        /\ ~isAnalyzing
        /\ LogOfSession =>
              /\ LastHandlerEntry.level = "ERROR"
              /\ LastHandlerEntry.message \in FailureEntryMessages(sess.failed)

\* C12 witness: the second status check of a session was rejected after a
\* first one had answered
C12_Witness ==
    /\ sess.failed = "checkStatus"
    /\ Len(pollTrace) >= 1
    /\ LogOfSession
    /\ LastHandlerEntry.level = "ERROR"

\* a step taken by a STOMP client callback: connect, message frame, close
\* (deactivate + closed notice) or STOMP error
ChannelStep ==
    /\ pc' = pc
    /\ sid' = sid
    /\ clients' # clients \/ used'.frames # used.frames

\* l2 is l1 with entries appended
Extends(l2, l1) ==
    /\ Len(l2) >= Len(l1)
    /\ SubSeq(l2, 1, Len(l1)) = l1

\* C13: a channel event (connect, any message, close, STOMP error) leaves
\* status, results and isAnalyzing unchanged and only appends to the log.
C13_ChannelOnlyAppends ==
    [][ChannelStep =>
          /\ analysisStatus' = analysisStatus
          /\ results' = results
          /\ isAnalyzing' = isAnalyzing
          /\ Extends(logs', logs)
          /\ Len(logs') > Len(logs)]_vars

\* C13 witness: polling has set the status and a STOMP error of the same
\* session was logged afterwards, the status still being the polled one
C13_Witness ==
    /\ Len(pollTrace) >= 1
    /\ analysisStatus = pollTrace[Len(pollTrace)].status
    /\ analysisStatus = "ANALYZING"
    /\ Len(logs) >= 2
    /\ logs[Len(logs) - 1].message = MsgStompError
    /\ logs[Len(logs) - 1].level = "ERROR"
    /\ logs[Len(logs) - 1].of = sid
    /\ logs[Len(logs)].message = MsgWsClosed

\* C14: when polling ended in COMPLETED and the following fetchResults call
\* was rejected, the session ends FAILED, the handler's last entry is an
\* ERROR entry carrying the result-fetch failure message, which differs from
\* every analysis-failure message, and no results of the session are held.
C14_FetchFailure ==
    (sess.failed = "fetchResults") =>
        /\ sess.terminal = "COMPLETED"
        /\ pollTrace[Len(pollTrace)].status = "COMPLETED"
        /\ pc = "idle"
        /\ analysisStatus = "FAILED"
        /\ ~isAnalyzing
        /\ results = NoResults \/ results.src = "hist"
        /\ LogOfSession =>
              /\ LastHandlerEntry.level = "ERROR"
              /\ LastHandlerEntry.message = MsgError(MsgResultsFailed)
        /\ MsgResultsFailed # MsgAnalysisFailed
        /\ \A em \in BackendErrorMessages :
              MsgResultsFailed # PollFailure(em).message

\* C14 witness: fetchResults was rejected after a COMPLETED response, the
\* log still being the session's and the results list empty
C14_Witness ==
    /\ sess.failed = "fetchResults"
    /\ LogOfSession
    /\ results = NoResults
    /\ LastHandlerEntry.message = MsgError(MsgResultsFailed)

\* C15: when the first terminal status response is FAILED, polling has
\* stopped with that response, no results were fetched, the final status is
\* FAILED, and the failure entry carries the backend's errorMessage when one
\* was supplied and the generic default when it was null or empty.
C15_FailedStopsPolling ==
    (sess.terminal = "FAILED") =>
        /\ FirstTerminal(pollTrace) = "FAILED"
        /\ pollTrace[Len(pollTrace)].status = "FAILED"
        /\ sess.polls = Len(pollTrace)
        /\ ~Polling
        /\ pc = "idle"
        /\ sess.fetches = 0
        /\ analysisStatus = "FAILED"
        /\ ~isAnalyzing
        /\ LogOfSession =>
              /\ LastHandlerEntry.level = "ERROR"
              /\ LastHandlerEntry.message =
                    MsgError(IF sess.failedWith.isNull \/ sess.failedWith.text = <<>>
                             THEN MsgAnalysisFailed
                             ELSE sess.failedWith.text)

\* C15 witness: a FAILED response with an empty errorMessage ended a polling
\* loop that had seen a non-terminal response before
C15_Witness ==
    /\ sess.terminal = "FAILED"
    /\ Len(pollTrace) >= 2
    /\ sess.failedWith = Text(<<>>)
    /\ LogOfSession
    /\ LastHandlerEntry.message = MsgError(MsgAnalysisFailed)

\* C16: onStatusUpdate is invoked exactly once per status response, in the
\* order of the responses and including the terminal one; a terminal response
\* is the last one, so exactly k status requests are issued when the k-th
\* response is the first terminal one (a request in flight or rejected has no
\* response and gets no callback).
C16_OneUpdatePerResponse ==
    (sess.kind = "url") =>
        /\ Len(sess.updates) = Len(pollTrace)
        /\ \A i \in DOMAIN pollTrace : sess.updates[i] = pollTrace[i].status
        /\ sess.polls = Len(pollTrace)
                         + (IF pc = "checkStatus" \/ sess.failed = "checkStatus"
                            THEN 1 ELSE 0)
        /\ \A i \in DOMAIN pollTrace :
              pollTrace[i].status \in Terminal => i = Len(pollTrace) /\ ~Polling
        /\ (Polling /\ pollTrace # <<>>) =>
              analysisStatus = pollTrace[Len(pollTrace)].status

\* C16 witness: the third response was the first terminal one; three
\* requests were issued and three callbacks made
C16_Witness ==
    /\ sess.kind = "url"
    /\ Len(pollTrace) = 3
    /\ FirstTerminal(pollTrace) = "COMPLETED"
    /\ sess.polls = 3
    /\ Len(sess.updates) = 3
    /\ pc = "fetchResults"

\* the entries a step appended to the log
Appended == SubSeq(logs', Len(logs) + 1, Len(logs'))

\* the step dispatched message m to the subscription handler of client c
Delivered(c, m) ==
    /\ ChannelStep
    /\ used'.frames # used.frames
    /\ clients[c].sub # 0
    /\ Extends(logs', logs)
    /\ Appended # <<>>
    /\ Appended[1] = Entry(m.level, m.message, "chan", c)

\* C17: for every message delivered on a session's topic the decoded entry
\* is logged first; the completion callback follows if and only if the entry
\* is ERROR-level or starts with the completion marker, and then the channel
\* the message came on is disconnected; an ordinary message triggers neither.
C17_CompletionClosesChannel ==
    [][\A c \in SessionIds, m \in ChannelMessages :
          Delivered(c, m) =>
             IF m.level = "ERROR" \/ StartsWith(m.message, CompletionMarker)
             THEN /\ Appended = <<Entry(m.level, m.message, "chan", c),
                                  Entry("INFO", MsgWsClosed, "chan", c)>>
                  /\ clients'[c].completes = clients[c].completes + 1
                  /\ ~ChannelActive(c)'
                  /\ stompClient' = NoClientRef
             ELSE /\ Appended = <<Entry(m.level, m.message, "chan", c)>>
                  /\ clients' = clients
                  /\ stompClient' = stompClient]_vars

\* C18: a disconnectWebSocket call always leaves the client reference null;
\* made when no client is referenced (none was created, or an earlier
\* disconnect cleared it) it changes nothing else; no client is deactivated
\* twice, and the client of the latest connectWebSocket has been deactivated
\* exactly once after it.
C18_DisconnectIdempotent ==
    [][(used'.disconnects # used.disconnects) =>
          /\ stompClient' = NoClientRef
          /\ stompClient = NoClientRef => clients' = clients
          /\ \A c \in SessionIds : clients'[c].deacts <= 1
          /\ sid = 0 => \A c \in SessionIds : clients'[c] = NoClient
          /\ sid >= 1 => /\ clients'[sid].deacts = 1
                         /\ clients'[sid].st = "deactivated"]_vars

\* C18 witness: connectWebSocket followed by three disconnectWebSocket calls
C18_Witness ==
    /\ sid >= 1
    /\ used.disconnects = 3
    /\ clients[sid].deacts = 1
    /\ stompClient = NoClientRef

\* C19: while isAnalyzing is true the form invokes neither onSubmit nor
\* onCodeSubmit whatever the field holds, no session is started, and a
\* submission made then issues no backend call and leaves logs, results,
\* status, isAnalyzing and the channel as they were.
C19_SubmitIgnoredWhileAnalyzing ==
    [][isAnalyzing =>
          /\ \A text \in FormTexts : ~FormCallsBack(isAnalyzing, text)
          /\ sid' = sid
          /\ (used'.ignored # used.ignored) =>
                /\ logs' = logs
                /\ UNCHANGED appVars
                /\ pc' = pc
                /\ sess' = sess
                /\ hist' = hist
                /\ UNCHANGED sockVars]_vars

\* C19 witness: a submission was ignored while the first session was being
\* polled with its channel open
C19_Witness ==
    /\ sid = 1
    /\ isAnalyzing
    /\ used.ignored >= 1
    /\ pc = "checkStatus"
    /\ stompClient = 1
    /\ clients[1].st = "connected"

\* the messages a failed login or register call can reject with
AuthFailureMessages(op) ==
    {MsgFetchFailed, MsgBadJson} \cup {AuthErrorMessage(op, b) : b \in AuthErrorBodies}

\* C20: a login or register call that fails leaves the stored token, the
\* stored user and the provider's user as they were and rejects to its caller
\* with the failure message; token and user are written, and the provider's
\* user set to the response's user, only in the step that handles a
\* successful response.
C20_FailedAuthKeepsState ==
    [][/\ (authResult'.kind = "rejected" /\ authResult.kind # "rejected") =>
             /\ authCall.op \in {"login", "register"}
             /\ storedToken' = storedToken
             /\ storedUser' = storedUser
             /\ user' = user
             /\ authResult'.message # <<>>
             /\ authResult'.message \in AuthFailureMessages(authCall.op)
       /\ (storedToken' \notin {storedToken, NoToken}
              \/ storedUser' \notin {storedUser, NoItem}) =>
             /\ authCall.phase = "okBody"
             /\ authResult'.kind = "resolved"
             /\ storedToken' = authResult'.response.token
             /\ getUser(storedUser') = UserOf(authResult'.response)
             /\ user' = UserOf(authResult'.response)]_vars

\* C20 witness: a login was refused while alice was signed in; her token,
\* stored user and provider user are still in place
C20_Witness ==
    /\ authResult.kind = "rejected"
    /\ authResult.message = MsgLoginFailed
    /\ authCall = NoAuthCall
    /\ storedToken = "jwt-alice"
    /\ getUser(storedUser).username = "alice"
    /\ user.username = "alice"

\* C21: between the start of one submission and the start of the next, every
\* step that changes the log only appends at its end: the log before the step
\* is a prefix of the log after it.
C21_LogAppendOnly ==
    [][sid' = sid => Extends(logs', logs)]_vars

\* C22: the results list is non-empty only while the status is COMPLETED.
C22_ResultsOnlyWhenCompleted ==
    results.n > 0 => analysisStatus = "COMPLETED"

\* position of a status in the order PENDING, CLONING, ANALYZING, terminal
\* (0 while no status is set)
Rank(status) ==
    IF status = "PENDING" THEN 1
    ELSE IF status = "CLONING" THEN 2
    ELSE IF status = "ANALYZING" THEN 3
    ELSE IF status \in Terminal THEN 4
    ELSE 0

\* C23: within one session the displayed status never moves backwards in the
\* order PENDING, CLONING, ANALYZING, terminal.
C23_StatusMonotonic ==
    [][sid' = sid => Rank(analysisStatus') >= Rank(analysisStatus)]_vars

\* a status response was handled in this step
PollResponseStep ==
    /\ sid' = sid
    /\ Len(pollTrace') = Len(pollTrace) + 1

\* C24: a poll response appends its status line if and only if the log is
\* empty or the message of its last entry differs from the status message;
\* nothing before the last entry is consulted and nothing already logged is
\* changed.
C24_DedupeAgainstLastEntryOnly ==
    [][PollResponseStep =>
          LET statusMsg == getStatusMessage(pollTrace'[Len(pollTrace')].status)
              line      == Entry("INFO", statusMsg, "poll", sid)
          IN /\ Extends(logs', logs)
             /\ (Appended # <<>> /\ Appended[1] = line)
                   <=> (logs = <<>> \/ logs[Len(logs)].message # statusMsg)]_vars

\* C24 witness: a status line that was already in the log was logged again
\* after another entry had been appended behind it
C24_Witness ==
    \E i, j, k \in DOMAIN logs :
        /\ i < j /\ j < k
        /\ logs[i].src = "poll" /\ logs[i].of = sid
        /\ logs[k].src = "poll" /\ logs[k].of = sid
        /\ logs[k].message = logs[i].message
        /\ \A m \in (i + 1)..(k - 1) : logs[m].src # "poll"
        /\ logs[j].message # logs[i].message

\* C25: the polling loop has no attempt limit and no timeout.  While the loop
\* waits, the next status check is due whatever the number of checks made;
\* every check is preceded by the delay; a PENDING, CLONING or ANALYZING
\* response leads to the next delay; and the loop is left only by the first
\* COMPLETED response (the handler goes on to fetch the results), the first
\* FAILED response or the first rejected status check (both end the handler,
\* the rejected check is not repeated).
C25_PollsUntilTerminalOrFailure ==
    [][/\ (pc = "pollDelay" /\ EventsLeft) => ENABLED PollTimer(EventsLeft, 1)
       /\ (pc' = "checkStatus" /\ pc # "checkStatus") =>
             pc = "pollDelay" /\ sess'.polls = sess.polls + 1
       /\ (PollResponseStep /\ pollTrace'[Len(pollTrace')].status \notin Terminal) =>
             pc' = "pollDelay"
       /\ (Polling /\ ~Polling') =>
             /\ pc = "checkStatus"
             /\ sess'.polls = sess.polls
             /\ \/ /\ PollResponseStep
                   /\ pollTrace'[Len(pollTrace')].status = "COMPLETED"
                   /\ pc' = "fetchResults"
                \/ /\ PollResponseStep
                   /\ pollTrace'[Len(pollTrace')].status = "FAILED"
                   /\ pc' = "idle"
                \/ /\ pollTrace' = pollTrace
                   /\ sess'.failed = "checkStatus"
                   /\ pc' = "idle"]_vars

\* C25 witness: a third status check is in flight after two non-terminal
\* responses
C25_Witness ==
    /\ pc = "checkStatus"
    /\ sess.polls = 3
    /\ Len(pollTrace) = 2
    /\ FirstTerminal(pollTrace) = "none"

\* ------------------------------------------------------------------ C26
\* C26: a code submission is analysed with the compilation check exactly
\* when the form's compilation box was checked: the checkCompilation flag
\* of the request equals the flag the form handed over.
C26_CompilationCheckAsChosen ==
    sess.kind = "code" => sess.request.checkCompilation = sess.boxChecked

\* ------------------------------------------------------------------ C27
\* the submit call of the current session is in flight
SubmitInFlight == pc \in {"startAnalysis", "analyzeCode"}

\* the visible state holds nothing but the new submission's own entries
OnlyNewSubmission ==
    /\ logs # <<>>
    /\ \A i \in 1..Len(logs) : logs[i].src = "handler" /\ logs[i].of = sid
    /\ results = NoResults
    /\ analysisStatus = Null

\* C27: a submission that passes the in-progress guard clears the previous
\* session's log, results and status before its submit call is issued: the
\* submit call is only ever issued by that step, when it is issued the log
\* holds only the new submission's entries, results are empty and the status
\* is undefined, and while it is in flight no handler or polling entry, no
\* result and no status of an earlier session is left.
C27_ClearedBeforeSubmit ==
    [][ /\ sid' # sid => SubmitInFlight' /\ OnlyNewSubmission'
        /\ (SubmitInFlight' /\ ~SubmitInFlight) => sid' = sid + 1
        /\ SubmitInFlight' =>
              /\ analysisStatus' = Null
              /\ results'.src \notin {"fetch", "code"}
              /\ \A i \in 1..Len(logs') :
                    logs'[i].src \in {"handler", "poll"} => logs'[i].of = sid' ]_vars

\* the second submission is in flight, after a first session that ended
C27_Witness ==
    /\ SubmitInFlight
    /\ sid = 2
    /\ OnlyNewSubmission

\* ------------------------------------------------------------------ C28
\* C28: a completion or ERROR message handled by the subscription of the
\* client created for one session closes that client only: it never
\* deactivates the client created by a later connectWebSocket call and never
\* clears the reference to it, and the client it came on is not left active.
C28_CompletionClosesOwnClientOnly ==
    [][\A c \in SessionIds, m \in ChannelMessages :
          (Delivered(c, m) /\ IsCompletion(m)) =>
             /\ \A d \in SessionIds : d > c => clients'[d] = clients[d]
             /\ stompClient > c => stompClient' = stompClient
             /\ ~ChannelActive(c)']_vars

\* ------------------------------------------------------------------ C29
\* submissions that pass the in-progress guard in a run with fairness
MaxLiveSessions == 1

\* the status a checkStatus response may carry when the backend eventually
\* reports a terminal status: once the events of a run are used up, every
\* further response is terminal
BackendMayReport(status) ==
    status \in Terminal \/ EventsLeft

\* the continuation of the running handler after its pending await: the
\* outcome of the backend call it waits for, or the 2 s timer of pollStatus
HandlerStep ==
    \/ StartAnalysisResolve
    \/ \E err \in SubmitErrors : StartAnalysisReject(err)
    \/ PollTimer(TRUE, IF EventsLeft THEN 1 ELSE 0)
    \/ \E st \in Statuses, em \in BackendErrorMessages :
          BackendMayReport(st) /\ CheckStatusResolve(st, em)
    \/ CheckStatusReject
    \/ \E n \in ViolationCounts : FetchResultsResolve(n)
    \/ FetchResultsReject
    \/ \E r \in CodeResults : AnalyzeCodeResolve(r)
    \/ \E err \in SubmitErrors : AnalyzeCodeReject(err)

NextLive ==
    \/ (sid < MaxLiveSessions /\ HandleAnalysisStart)
    \/ \E m \in FormModes :
          sid < MaxLiveSessions /\ m[1] = "code" /\ HandleCodeAnalysis(m[2], m[3])
    \/ HandlerStep
    \/ \E c \in SessionIds : OnConnect(c)
    \/ \E c \in SessionIds, m \in ChannelMessages :
          IsCompletion(m) /\ OnMessage(c, m)
    \/ \E c \in SessionIds : OnStompError(c)

\* every backend call is eventually answered and every timer fires
SpecLive == Init /\ [][NextLive]_vars /\ WF_vars(HandlerStep)

\* C29: every session that passes the in-progress guard eventually leaves
\* the in-progress state, on every path, and at that moment the status is
\* COMPLETED or FAILED; a channel completion signal alone never ends the
\* in-progress state.
C29_EventuallyLeavesInProgress ==
    /\ \A s \in SessionIds :
          (sid = s /\ isAnalyzing) ~> (sid = s /\ ~isAnalyzing)
    /\ [][(isAnalyzing /\ ~isAnalyzing') =>
            /\ analysisStatus' \in Terminal
            /\ ~ChannelStep
            /\ pc' = "idle"]_vars

\* the URL session left the in-progress state by its own handler after two
\* polls, although the channel had signalled completion before
C29_Witness ==
    /\ sid = 1
    /\ sess.kind = "url"
    /\ ~isAnalyzing
    /\ analysisStatus = "COMPLETED"
    /\ sess.polls >= 2
    /\ clients[1].completes > 0
    /\ results.src = "fetch"

\* ------------------------------------------------------------------ C30
\* ------------------------------------------------- auth.ts storage calls
MsgNotAuthorized     == <<"Ne avtoryzovano">>
MsgLevelUpdateFailed == <<"Ne vdalosya onovyty riven dosvidu">>
MsgUserUpdateFailed  == <<"Ne vdalosya onovyty dani korystuvacha">>

\* updates of updateStoredUser: the experience level, as updateExperienceLevel
\* and the tests pass it
UserUpdates == {[experienceLevel |-> l] : l \in ExperienceLevels}

\* a User or null handed back by a call
Returned(u) ==
    [kind |-> "resolved", message |-> <<>>,
     response |-> [token |-> NoToken, username |-> u.username, email |-> u.email,
                   role |-> u.role, experienceLevel |-> u.experienceLevel]]

\* mutant: with no stored user the updates themselves are stored
updateStoredUserCreates(item, updates) ==
    LET currentUser == getUser(item)
        updatedUser == [currentUser EXCEPT !.experienceLevel = updates.experienceLevel]
    IN [storedUser |-> Stringify(updatedUser), result |-> updatedUser]

\* auth.ts 140-147: the user item after the call and the value returned
updateStoredUser(item, updates) ==
    LET currentUser == getUser(item)
        updatedUser == [currentUser EXCEPT !.experienceLevel = updates.experienceLevel]
    IN IF currentUser = NoUser
       THEN [storedUser |-> item, result |-> NoUser]
       ELSE [storedUser |-> Stringify(updatedUser), result |-> updatedUser]

\* auth.ts 152-155 called on its own
CallClearAuthData ==
    /\ storedToken' = clearAuthData.storedToken
    /\ storedUser' = clearAuthData.storedUser
    /\ UNCHANGED <<user, isLoading, authCall, authResult>>
    /\ UNCHANGED <<logs, appVars, pc, sid, sess, used, pollTrace, touched, sockVars, hist>>

\* auth.ts 140-147 called on its own
CallUpdateStoredUser(updates) ==
    /\ authCall = NoAuthCall
    /\ storedUser' = updateStoredUser(storedUser, updates).storedUser
    /\ authResult' = Returned(updateStoredUser(storedUser, updates).result)
    /\ UNCHANGED <<storedToken, user, isLoading, authCall>>
    /\ UNCHANGED <<logs, appVars, pc, sid, sess, used, pollTrace, touched, sockVars, hist>>

\* auth.ts 222-227: without a token null is returned, otherwise the fetch
\* of /api/auth/me is issued
GetCurrentUser ==
    /\ authCall = NoAuthCall
    /\ IF isAuthenticated(storedToken)
       THEN /\ authCall' = [op |-> "getCurrentUser", phase |-> "meFetch"]
            /\ authResult' = NoAuthResult
       ELSE /\ authCall' = authCall
            /\ authResult' = Returned(NoUser)
    /\ UNCHANGED <<storedToken, storedUser, user, isLoading>>
    /\ UNCHANGED <<logs, appVars, pc, sid, sess, used, pollTrace, touched, sockVars, hist>>

\* auth.ts 233-236, 239-242: a refused response, a rejected fetch or a body
\* that is not JSON clears the stored session and null is returned
CurrentUserFails ==
    /\ authCall.phase \in {"meFetch", "meBody"}
    /\ authCall' = NoAuthCall
    /\ storedToken' = clearAuthData.storedToken
    /\ storedUser' = clearAuthData.storedUser
    /\ authResult' = Returned(NoUser)
    /\ UNCHANGED <<user, isLoading>>
    /\ UNCHANGED <<logs, appVars, pc, sid, sess, used, pollTrace, touched, sockVars, hist>>

\* auth.ts 233: the response arrives with response.ok
CurrentUserResponds ==
    /\ authCall.phase = "meFetch"
    /\ authCall' = [authCall EXCEPT !.phase = "meBody"]
    /\ UNCHANGED <<storedToken, storedUser, user, isLoading, authResult>>
    /\ UNCHANGED <<logs, appVars, pc, sid, sess, used, pollTrace, touched, sockVars, hist>>

\* auth.ts 238: the body is returned as the user; nothing is stored
CurrentUserBody(response) ==
    /\ authCall.phase = "meBody"
    /\ authCall' = NoAuthCall
    /\ authResult' = Returned(UserOf(response))
    /\ UNCHANGED <<storedToken, storedUser, user, isLoading>>
    /\ UNCHANGED <<logs, appVars, pc, sid, sess, used, pollTrace, touched, sockVars, hist>>

\* auth.ts 332-343: without a token the call throws, otherwise the PATCH
\* is issued
UpdateExperienceLevel ==
    /\ authCall = NoAuthCall
    /\ IF isAuthenticated(storedToken)
       THEN /\ authCall' = [op |-> "updateExperienceLevel", phase |-> "levelFetch"]
            /\ authResult' = NoAuthResult
       ELSE /\ authCall' = authCall
            /\ authResult' = Rejected(MsgNotAuthorized)
    /\ UNCHANGED <<storedToken, storedUser, user, isLoading>>
    /\ UNCHANGED <<logs, appVars, pc, sid, sess, used, pollTrace, touched, sockVars, hist>>

\* auth.ts 335: the fetch rejects; the rejection passes to the caller
ExperienceFetchRejects ==
    /\ authCall.phase = "levelFetch"
    /\ authCall' = NoAuthCall
    /\ authResult' = Rejected(MsgFetchFailed)
    /\ UNCHANGED <<storedToken, storedUser, user, isLoading>>
    /\ UNCHANGED <<logs, appVars, pc, sid, sess, used, pollTrace, touched, sockVars, hist>>

\* auth.ts 344-355: a refused response throws; otherwise updateStoredUser
\* runs with the level of the call (read here for the first time) and a
\* null result throws
ExperienceResponds(ok, experienceLevel) ==
    /\ authCall.phase = "levelFetch"
    /\ authCall' = NoAuthCall
    /\ LET upd == updateStoredUser(storedUser, [experienceLevel |-> experienceLevel])
       IN IF ~ok
          THEN /\ storedUser' = storedUser
               /\ authResult' = Rejected(MsgLevelUpdateFailed)
          ELSE /\ storedUser' = upd.storedUser
               /\ authResult' = IF upd.result = NoUser
                                 THEN Rejected(MsgUserUpdateFailed)
                                 ELSE Returned(upd.result)
    /\ UNCHANGED <<storedToken, user, isLoading>>
    /\ UNCHANGED <<logs, appVars, pc, sid, sess, used, pollTrace, touched, sockVars, hist>>

NextStorage ==
    \/ NextAuth
    \/ CallClearAuthData
    \/ \E u \in UserUpdates : CallUpdateStoredUser(u)
    \/ GetCurrentUser
    \/ CurrentUserFails
    \/ CurrentUserResponds
    \/ \E r \in AuthResponses : CurrentUserBody(r)
    \/ UpdateExperienceLevel
    \/ ExperienceFetchRejects
    \/ \E ok \in BOOLEAN, l \in ExperienceLevels : ExperienceResponds(ok, l)

\* the auth service over a storage that starts empty
SpecStorage == Init /\ [][NextStorage]_vars

\* a step of updateStoredUser or of updateExperienceLevel
UpdateCallStep ==
    \/ \E u \in UserUpdates : CallUpdateStoredUser(u)
    \/ UpdateExperienceLevel
    \/ ExperienceFetchRejects
    \/ \E ok \in BOOLEAN, l \in ExperienceLevels : ExperienceResponds(ok, l)

\* C30: starting from empty storage, after any sequence of register, login,
\* logout, clearAuthData, getCurrentUser, updateStoredUser and
\* updateExperienceLevel calls with any outcomes the stored token and the
\* stored user are both present or both absent; updateStoredUser and
\* updateExperienceLevel never change the token and never create a stored
\* user when none exists.
C30_TokenAndUserTogether ==
    [][ /\ (storedToken' = NoToken) <=> (storedUser' = NoItem)
        /\ UpdateCallStep =>
              /\ storedToken' = storedToken
              /\ storedUser = NoItem => storedUser' = NoItem ]_vars

\* bob's session after an update of the experience level: the token is the
\* one login stored, the stored user carries the new level
C30_Witness ==
    /\ storedToken = "jwt-bob"
    /\ getUser(storedUser).username = "bob"
    /\ getUser(storedUser).experienceLevel = "STUDENT"
    /\ authResult.kind = "resolved"
    /\ authResult.response.experienceLevel = "STUDENT"

====
